---- MODULE Spec2Model ----
(***************************************************************************)
(* Model of frozendict.py: a persistent left-leaning red-black tree        *)
(* (RBNode, insert, search, iter_keys, node_len) and the FrozenDict        *)
(* mapping built on it.                                                    *)
(*                                                                         *)
(* Objects live in a heap: a sequence of RBNode records, a reference is an *)
(* index into it and None is 0.  dataclasses.replace and the RBNode        *)
(* constructor allocate; nothing else writes the heap.                     *)
(*                                                                         *)
(* The color field holds whatever the code stores there: the enum members  *)
(* RBColor.black and RBColor.red, and the booleans that `not color`        *)
(* produces in flip_colors.  Truthiness follows Python: an Enum member     *)
(* without __bool__ is true whatever its value, True is true, False is     *)
(* false.                                                                  *)
(***************************************************************************)
EXTENDS Integers, Sequences, FiniteSets, TLC

\* ---- bounds --------------------------------------------------------------
MaxKey == 4
MaxVal == 2
MaxInserts == 4

Keys == 1..MaxKey
Values == 1..MaxVal

\* ---- Python values -------------------------------------------------------
None == 0

RBColor_black == "RBColor.black"
RBColor_red == "RBColor.red"
PyTrue == "True"
PyFalse == "False"

\* bool(x) of a value stored in a color field
truthy(c) == c # PyFalse

\* `not c`: always a bool
py_not(c) == IF truthy(c) THEN PyFalse ELSE PyTrue

\* RBNode(key, value): right, left default to None, color to RBColor.black
RBNode(key, value) ==
    [key |-> key, value |-> value, right |-> None, left |-> None,
     color |-> RBColor_black]

\* a call's outcome: a returned value or a raised exception
Returned(v) == [exc |-> "none", val |-> v]
Raised(e) == [exc |-> e, val |-> None]

VARIABLES heap, root, pc, hist, result
vars == <<heap, root, pc, hist, result>>

\* ---- allocation ----------------------------------------------------------
\* a freshly constructed object: appended to the heap, its reference returned
new_object(hp, node) == [heap |-> Append(hp, node), ref |-> Len(hp) + 1]

\* a bug that would write the changed fields into the object itself
replace_inplace(hp, obj, node) == [heap |-> [hp EXCEPT ![obj] = node], ref |-> obj]

\* dataclasses.replace(obj, **changes) on a frozen dataclass: a new object
\* carrying the changed fields; obj itself is left alone
replace(hp, obj, node) == new_object(hp, node)

\* ---- is_red --------------------------------------------------------------
is_red(hp, node) == node # None /\ truthy(hp[node].color)

\* ---- rotations and flip --------------------------------------------------
rotate_left(hp, self) ==
    LET n == replace(hp, self,
                 [hp[self] EXCEPT !.right = hp[hp[self].right].left,
                                  !.color = RBColor_red])
    IN  replace(n.heap, hp[self].right,
                 [hp[hp[self].right] EXCEPT !.left = n.ref,
                                            !.color = hp[self].color])

rotate_right(hp, self) ==
    LET n == replace(hp, self,
                 [hp[self] EXCEPT !.color = RBColor_red,
                                  !.left = hp[hp[self].left].right])
    IN  replace(n.heap, hp[self].left,
                 [hp[hp[self].left] EXCEPT !.right = n.ref,
                                           !.color = hp[self].color])

\* a bug that would forget the right child in the flip
flip_colors_noright(hp, self) ==
    LET l == replace(hp, hp[self].left,
                 [hp[hp[self].left] EXCEPT !.color = py_not(hp[hp[self].left].color)])
    IN  replace(l.heap, self,
                 [hp[self] EXCEPT !.color = py_not(hp[self].color),
                                  !.left = l.ref])

flip_colors(hp, self) ==
    LET l == replace(hp, hp[self].left,
                 [hp[hp[self].left] EXCEPT !.color = py_not(hp[hp[self].left].color)])
        r == replace(l.heap, hp[self].right,
                 [hp[hp[self].right] EXCEPT !.color = py_not(hp[hp[self].right].color)])
    IN  replace(r.heap, self,
                 [hp[self] EXCEPT !.color = py_not(hp[self].color),
                                  !.left = l.ref,
                                  !.right = r.ref])

\* ---- search --------------------------------------------------------------
\* the while loop, one node per call; the keys are totally ordered, so a key
\* that is neither equal to nor less than x.key is greater
RECURSIVE search(_, _, _)
search(hp, x, key) ==
    IF x = None THEN Raised("KeyError")
    ELSE IF key = hp[x].key THEN Returned(hp[x].value)
    ELSE IF key < hp[x].key THEN search(hp, hp[x].left, key)
    ELSE search(hp, hp[x].right, key)

\* ---- iter_keys -----------------------------------------------------------
\* a bug that would yield the node's key before its left subtree
RECURSIVE iter_keys_preorder(_, _)
iter_keys_preorder(hp, h) ==
    IF h = None THEN <<>>
    ELSE <<hp[h].key>> \o iter_keys_preorder(hp, hp[h].left)
                       \o iter_keys_preorder(hp, hp[h].right)

RECURSIVE iter_keys(_, _)
iter_keys(hp, h) ==
    IF h = None THEN <<>>
    ELSE iter_keys(hp, hp[h].left) \o <<hp[h].key>> \o iter_keys(hp, hp[h].right)

\* ---- node_len ------------------------------------------------------------
\* a bug that would leave the right subtree out of the count
RECURSIVE node_len_noright(_, _)
node_len_noright(hp, node) ==
    IF node = None THEN 0
    ELSE 1 + node_len_noright(hp, hp[node].left)

RECURSIVE node_len(_, _)
node_len(hp, node) ==
    IF node = None THEN 0
    ELSE 1 + node_len(hp, hp[node].left) + node_len(hp, hp[node].right)

\* ---- insert --------------------------------------------------------------
\* An intermediate value of the local h: the heap so far and the reference h
\* holds.  Each statement of insert is an operator from one such value to the
\* next; insert chains them, every value computed once.

\* if h is None: h = RBNode(key, value)
insert_absent(hp, h, key, value) ==
    IF h = None THEN new_object(hp, RBNode(key, value))
    ELSE [heap |-> hp, ref |-> h]

\* if is_red(h.left) and is_red(h.right): h = h.flip_colors()
insert_flip(s) ==
    IF is_red(s.heap, s.heap[s.ref].left) /\ is_red(s.heap, s.heap[s.ref].right)
    THEN flip_colors(s.heap, s.ref)
    ELSE s

\* a bug that would keep the stored value when the key is already there
set_value_skip(hp, h, value) == [heap |-> hp, ref |-> h]

\* the key == h.key branch: h = replace(h, value=value)
set_value(hp, h, value) == replace(hp, h, [hp[h] EXCEPT !.value = value])

\* h = replace(h, left=<the subtree sub.ref of the heap sub.heap>)
set_left(h, sub) == replace(sub.heap, h, [sub.heap[h] EXCEPT !.left = sub.ref])

\* h = replace(h, right=<the subtree sub.ref of the heap sub.heap>)
set_right(h, sub) == replace(sub.heap, h, [sub.heap[h] EXCEPT !.right = sub.ref])

\* a bug that would drop the result of the rotation (h.rotate_left() without
\* the assignment to h)
insert_rotate_left_discarded(s) == s

\* if is_red(h.right) and not is_red(h.left): h = h.rotate_left()
insert_rotate_left(s) ==
    IF is_red(s.heap, s.heap[s.ref].right) /\ ~is_red(s.heap, s.heap[s.ref].left)
    THEN rotate_left(s.heap, s.ref)
    ELSE s

\* if is_red(h.left) and is_red(h.left.left): h = h.rotate_right()
insert_rotate_right(s) ==
    IF is_red(s.heap, s.heap[s.ref].left)
       /\ is_red(s.heap, s.heap[s.heap[s.ref].left].left)
    THEN rotate_right(s.heap, s.ref)
    ELSE s

RECURSIVE insert(_, _, _, _)
insert(hp, h, key, value) ==
    CHOOSE s4 \in
      {insert_rotate_right(s3) : s3 \in
        {insert_rotate_left(s2) : s2 \in
          UNION {IF key = s1.heap[s1.ref].key
                 THEN {set_value(s1.heap, s1.ref, value)}
                 ELSE IF key < s1.heap[s1.ref].key
                 THEN {set_left(s1.ref, sub) : sub \in
                          {insert(s1.heap, s1.heap[s1.ref].left, key, value)}}
                 ELSE {set_right(s1.ref, sub) : sub \in
                          {insert(s1.heap, s1.heap[s1.ref].right, key, value)}}
                 : s1 \in
                     {insert_flip(s0) : s0 \in {insert_absent(hp, h, key, value)}}}}}
      : TRUE

\* ---- FrozenDict ----------------------------------------------------------
\* FrozenDict.__getitem__: self.root.search(key); the attribute lookup on a
\* root that is None raises AttributeError before search runs
getitem(hp, rt, key) ==
    IF rt = None THEN Raised("AttributeError") ELSE search(hp, rt, key)

\* Mapping.__contains__, inherited: try self[key]; except KeyError: False;
\* else True.  Any other exception propagates.
contains(hp, rt, key) ==
    LET r == getitem(hp, rt, key)
    IN  IF r.exc = "none" THEN Returned(TRUE)
        ELSE IF r.exc = "KeyError" THEN Returned(FALSE)
        ELSE Raised(r.exc)

NoResult == [op |-> "none", key |-> None, exc |-> "none", val |-> None]

Init ==
    /\ heap = <<>>
    /\ root = None
    /\ pc = "init"
    /\ hist = <<>>
    /\ result = NoResult

\* one iteration of a loop of __init__: root = insert(root, key, value)
InitInsert(key, value) ==
    /\ pc = "init"
    /\ Len(hist) < MaxInserts
    /\ \E r \in {insert(heap, root, key, value)} :
           /\ heap' = r.heap
           /\ root' = r.ref
    /\ hist' = Append(hist, <<key, value>>)
    /\ UNCHANGED <<pc, result>>

\* object.__setattr__(self, 'root', root): the mapping exists from here on
InitSetRoot ==
    /\ pc = "init"
    /\ pc' = "built"
    /\ UNCHANGED <<heap, root, hist, result>>

\* FrozenDict(other, **kwargs) with other a FrozenDict: root = other.root,
\* then the kwargs loop inserts into it
InitShareRoot ==
    /\ pc = "built"
    /\ pc' = "init"
    /\ result' = NoResult
    /\ UNCHANGED <<heap, root, hist>>

Get(key) ==
    /\ pc = "built"
    /\ \E r \in {getitem(heap, root, key)} :
           result' = [op |-> "get", key |-> key, exc |-> r.exc, val |-> r.val]
    /\ UNCHANGED <<heap, root, pc, hist>>

Contains(key) ==
    /\ pc = "built"
    /\ \E r \in {contains(heap, root, key)} :
           result' = [op |-> "contains", key |-> key, exc |-> r.exc, val |-> r.val]
    /\ UNCHANGED <<heap, root, pc, hist>>

Next ==
    \/ \E key \in Keys, value \in Values : InitInsert(key, value)
    \/ InitSetRoot
    \/ InitShareRoot
    \/ \E key \in Keys : Get(key)
    \/ \E key \in Keys : Contains(key)

Spec == Init /\ [][Next]_vars

\* The construction loop alone: FrozenDict built from a sequence of pairs,
\* one insert after the other from the empty tree.
NextInsert == \E key \in Keys, value \in Values : InitInsert(key, value)

SpecInsert == Init /\ [][NextInsert]_vars

\* ---- the mapping as the history of inserts defines it --------------------
InsertedKeys(h) == {h[i][1] : i \in 1..Len(h)}

LastValue(h, k) ==
    LET i == CHOOSE i \in 1..Len(h) :
                 /\ h[i][1] = k
                 /\ \A j \in (i+1)..Len(h) : h[j][1] # k
    IN  h[i][2]

StrictlyAscending(s) == \A i \in 1..(Len(s) - 1) : s[i] < s[i + 1]

Range(s) == {s[i] : i \in 1..Len(s)}

\* ---- the tree under a reference ------------------------------------------
RECURSIVE Nodes(_, _)
Nodes(hp, h) ==
    IF h = None THEN {}
    ELSE Nodes(hp, hp[h].left) \cup {h} \cup Nodes(hp, hp[h].right)

\* the numbers of black nodes on the paths from h down to an absent child,
\* a node being red exactly when is_red says so
RECURSIVE BlackHeights(_, _)
BlackHeights(hp, h) ==
    IF h = None THEN {0}
    ELSE {n + (IF is_red(hp, h) THEN 0 ELSE 1) :
              n \in BlackHeights(hp, hp[h].left) \cup BlackHeights(hp, hp[h].right)}

\* ---- C1 ------------------------------------------------------------------
\* C1: after every insert, Get of every key inserted so far returns the value
\* of the last insert of that key, and an insert of a key that was already in
\* the tree leaves Length as it was.
C1_RoundTripOverwrite ==
    [][hist' # hist =>
         /\ \A k \in InsertedKeys(hist') :
                getitem(heap', root', k) = Returned(LastValue(hist', k))
         /\ (hist'[Len(hist')][1] \in InsertedKeys(hist)
                => node_len(heap', root') = node_len(heap, root))]_vars

\* a key was inserted twice with different values, in a tree of three or more
\* nodes, and Get returns the later one
C1_Witness ==
    /\ node_len(heap, root) >= 3
    /\ \E i, j \in 1..Len(hist) :
          /\ i < j
          /\ hist[i][1] = hist[j][1]
          /\ hist[i][2] # hist[j][2]
          /\ LastValue(hist, hist[j][1]) = hist[j][2]
          /\ getitem(heap, root, hist[j][1]) = Returned(hist[j][2])

\* ---- C2 ------------------------------------------------------------------
\* C2: no step changes a node that is already in the heap, and Get of every
\* key, Keys and Length of the root the step started from are the same
\* after the step as before it.  (A step that leaves the whole heap as it
\* was satisfies all of it; the first disjunct only saves the evaluation.)
C2_Persistence ==
    [][\/ heap' = heap
       \/ /\ Len(heap') >= Len(heap)
          /\ SubSeq(heap', 1, Len(heap)) = heap
          /\ iter_keys(heap', root) = iter_keys(heap, root)
          /\ node_len(heap', root) = node_len(heap, root)
          /\ \A k \in Keys : getitem(heap', root, k) = getitem(heap, root, k)]_vars

\* an insert of a key that was already there has run on a tree of two or more
\* nodes, and nodes of earlier versions are still in the heap
C2_Witness ==
    /\ Len(hist) >= 3
    /\ hist[Len(hist)][1] \in InsertedKeys(SubSeq(hist, 1, Len(hist) - 1))
    /\ node_len(heap, root) >= 2
    /\ \E n \in 1..Len(heap) : n \notin Nodes(heap, root)

\* ---- C3 ------------------------------------------------------------------
\* C3: iter_keys of the root yields the distinct inserted keys, each once, in
\* strictly ascending order.
C3_KeysAscending ==
    LET ks == iter_keys(heap, root)
    IN  /\ StrictlyAscending(ks)
        /\ Range(ks) = InsertedKeys(hist)
        /\ Len(ks) = Cardinality(InsertedKeys(hist))

\* three or more keys, inserted in an order that is not ascending
C3_Witness ==
    /\ Len(iter_keys(heap, root)) >= 3
    /\ \E i \in 1..(Len(hist) - 1) : hist[i][1] > hist[i + 1][1]

\* ---- C4 ------------------------------------------------------------------
\* C4: Length, node_len of the root, is the number of distinct inserted keys.
C4_Length == node_len(heap, root) = Cardinality(InsertedKeys(hist))

\* some key inserted more than once, among three or more distinct keys
C4_Witness ==
    /\ Len(hist) > Cardinality(InsertedKeys(hist))
    /\ node_len(heap, root) >= 3

\* ---- C5 ------------------------------------------------------------------
\* C5: Contains never raises, and Get of a key that is not in the mapping
\* raises KeyError and nothing else.
C5_ContainsTotal ==
    /\ (result.op = "contains" => result.exc = "none")
    /\ (result.op = "get" /\ result.key \notin InsertedKeys(hist)
            => result.exc = "KeyError")

\* ---- C6 ------------------------------------------------------------------
\* C6: every path from the root to an absent child passes the same number of
\* black nodes.
C6_BlackBalance == Cardinality(BlackHeights(heap, root)) = 1

\* a tree of black height two that holds a red node below the root
C6_Witness ==
    /\ BlackHeights(heap, root) = {2}
    /\ \E n \in Nodes(heap, root) : n # root /\ is_red(heap, n)

\* ---- C7 ------------------------------------------------------------------
\* C7: no node has a red right child while its left child is not red.
C7_NoRightLeaningRed ==
    \A n \in Nodes(heap, root) :
        ~(is_red(heap, heap[n].right) /\ ~is_red(heap, heap[n].left))

\* the last insert went to the right of everything inserted before it, and
\* the tree holds a node with a red left child and no red right child
C7_Witness ==
    /\ Len(hist) >= 2
    /\ \A i \in 1..(Len(hist) - 1) : hist[i][1] < hist[Len(hist)][1]
    /\ \E n \in Nodes(heap, root) :
          is_red(heap, heap[n].left) /\ ~is_red(heap, heap[n].right)

\* ---- C8 ------------------------------------------------------------------
\* C8: no red node, the root included, has a red left child.
C8_NoConsecutiveLeftRed ==
    \A n \in Nodes(heap, root) :
        ~(is_red(heap, n) /\ is_red(heap, heap[n].left))

\* ---- C9 ------------------------------------------------------------------
\* C9: the root of a non-empty tree is black.
C9_RootBlack == root # None => ~is_red(heap, root)

\* ---- C10 -----------------------------------------------------------------
\* C10: an insert into an absent subtree returns a single node with the key
\* and value, no children, the red color in its color field, and is_red true.
C10_NewNodeRed ==
    Len(hist) = 1 =>
        /\ heap[root].key = hist[1][1]
        /\ heap[root].value = hist[1][2]
        /\ heap[root].left = None
        /\ heap[root].right = None
        /\ heap[root].color = RBColor_red
        /\ is_red(heap, root)

====
